---------------------------- MODULE Spec2Model ----------------------------
(***************************************************************************)
(* Volume (src/voxel/volume/mod.rs): a narrow-band signed distance field   *)
(* on a sparse voxel grid, with construction (from_fn), Boolean            *)
(* combination (union, intersect, subtract), offset and clone.             *)
(*                                                                         *)
(* World lengths (voxel_size, box corners, distances, stored values) are   *)
(* whole numbers of one fixed world unit.  A Volume owns its grid through  *)
(* a Box: the model keeps the boxes in a heap of addresses so that         *)
(* ownership, moves and deep copies are visible.                           *)
(***************************************************************************)
EXTENDS Integers, Sequences, FiniteSets, TLC

VARIABLES
    heap,   \* address -> the VolumeGrid boxed there, or NoGrid
    vols,   \* the caller's bindings: slot -> the Volume it holds, or NoVolume
    calls,  \* the grid-level calls made by the last operation, in order
    last,   \* the last operation: its name, arguments and operands as they were
    cloned, \* slot -> what its Volume was when last cloned, until it is passed on
    nops    \* operations performed so far

vars == <<heap, vols, calls, last, cloned, nops>>

(***************************************************************************)
(* Bounds of the model.                                                    *)
(***************************************************************************)
MaxCoord == 1        \* box corners: x in -MaxCoord..MaxCoord, y in 0..MaxCoord
MaxDepth == 0        \* box corners: z in -MaxDepth..MaxDepth
MaxVoxelSize == 2    \* voxel_size ranges over -1..MaxVoxelSize
MaxBand == 1         \* narrow_band_width ranges over 0..MaxBand
MaxR == 2            \* parameter of the sampled functions
MaxDist == 1         \* offset distances range over -MaxDist..MaxDist
MaxOps == 4          \* operations per behaviour
NumSlots == 3        \* bindings a caller holds at once

Slots == 1..NumSlots
Addrs == 1..(NumSlots + 1)
Axes == 1..3

(***************************************************************************)
(* f32 values.  Finite values are integers; NaN is a value of its own,     *)
(* shown as a number no finite value of the model reaches.  FAbs and FGt   *)
(* are f32::abs and the f32 comparison >, which is false on NaN.           *)
(***************************************************************************)
NaN == 1000 * (MaxCoord + MaxDepth + MaxR + MaxVoxelSize + MaxDist + MaxBand + 1)

Abs(a) == IF a < 0 THEN -a ELSE a

FAbs(v) == IF v = NaN THEN NaN ELSE Abs(v)

FGt(a, b) == a # NaN /\ b # NaN /\ a > b

(***************************************************************************)
(* (min / voxel_size).floor() as isize and (max / voxel_size).ceil() as    *)
(* isize.  Division by a zero voxel_size gives an infinity or NaN; the     *)
(* cast saturates an infinity and sends NaN to 0.                          *)
(***************************************************************************)
IsizeMax == 2147483647

FloorDiv(a, b) == IF b > 0 THEN a \div b ELSE (-a) \div (-b)

CeilDiv(a, b) == -FloorDiv(-a, b)

FloorCast(a, voxel_size) ==
    IF voxel_size # 0 THEN FloorDiv(a, voxel_size)
    ELSE IF a > 0 THEN IsizeMax
    ELSE IF a < 0 THEN -IsizeMax
    ELSE 0

CeilCast(a, voxel_size) ==
    IF voxel_size # 0 THEN CeilDiv(a, voxel_size)
    ELSE IF a > 0 THEN IsizeMax
    ELSE IF a < 0 THEN -IsizeMax
    ELSE 0

(***************************************************************************)
(* The lattice the model keeps: every index a terminating from_fn can      *)
(* reach with the corners above.                                           *)
(***************************************************************************)
Coords == (-MaxCoord)..MaxCoord

Depths == (-MaxDepth)..MaxDepth

Lattice == Coords \X Coords \X Depths

(***************************************************************************)
(* VolumeGrid.  A voxel is active with a stored value, or background; a    *)
(* background voxel carries the sign flood fill gave it (0: none yet).     *)
(***************************************************************************)
Background(sign) == [active |-> FALSE, value |-> sign]

Active(v) == [active |-> TRUE, value |-> v]

NoGrid == <<>>

empty == [idx \in Lattice |-> Background(0)]

ActiveSet(g) == {idx \in Lattice : g[idx].active}

(***************************************************************************)
(* The functions from_fn samples: signed fields over world points.         *)
(***************************************************************************)
FuncKinds == {"sphere", "plane", "const", "pole"}

Funcs == FuncKinds \X (0..MaxR)

Func(f, p) ==
    CASE f[1] = "sphere" -> Abs(p[1]) + Abs(p[2]) + Abs(p[3]) - f[2]
      [] f[1] = "plane"  -> p[1] - f[2]
      [] f[1] = "const"  -> f[2] - 1
      [] f[1] = "pole"   -> IF p = <<0, 0, 0>> THEN NaN
                            ELSE Abs(p[1]) + Abs(p[2]) + Abs(p[3]) - f[2]

(***************************************************************************)
(* Volume::from_fn.                                                        *)
(***************************************************************************)
LatticeMin(min, voxel_size) == [a \in Axes |-> FloorCast(min[a], voxel_size)]

LatticeMax(max, voxel_size) == [a \in Axes |-> CeilCast(max[a], voxel_size)]

\* Mutant: each loop runs between its two bounds whichever is the lower.
LoopRange_Sorted(lo, hi) ==
    {idx \in Lattice : \A a \in Axes :
        \/ lo[a] <= idx[a] /\ idx[a] <= hi[a]
        \/ hi[a] <= idx[a] /\ idx[a] <= lo[a]}

\* x..=y of the three nested loops: the indices the innermost body runs on.
LoopRange(lo, hi) ==
    {idx \in Lattice : \A a \in Axes : lo[a] <= idx[a] /\ idx[a] <= hi[a]}

\* The loops end: an axis that runs over a saturated bound never does, unless
\* a loop around it is empty.
Saturated(lo, hi, a) == lo[a] <= hi[a] /\ (lo[a] = -IsizeMax \/ hi[a] = IsizeMax)

LoopsEnd(lo, hi) ==
    \A a \in Axes : Saturated(lo, hi, a) => \E b \in 1..(a - 1) : lo[b] > hi[b]

GridPoint(idx, voxel_size) == [a \in Axes |-> idx[a] * voxel_size]

\* if value.abs() > narrow_band_width { continue; }
Skips(value, band) == FGt(FAbs(value), band)

from_fn_grid(voxel_size, min, max, narrow_band_width, func) ==
    LET band == (narrow_band_width + 1) * voxel_size
        lo == LatticeMin(min, voxel_size)
        hi == LatticeMax(max, voxel_size)
        visited == LoopRange(lo, hi)
    IN [idx \in Lattice |->
          LET value == Func(func, GridPoint(idx, voxel_size))
          IN IF idx \in visited /\ ~Skips(value, band)
             THEN Active(value)
             ELSE Background(0)]

(***************************************************************************)
(* The grid's own operations, which Volume delegates to (spec sections     *)
(* 4.2, 4.4, 4.5, 4.6 and 6).                                              *)
(***************************************************************************)
Far == NaN - 1

\* The sign of a stored value: the f32 sign bit, zero being positive.
Sign(v) == IF v < 0 THEN -1 ELSE 1

\* The sign a voxel carries: of its value when active, of its background
\* otherwise (0: none).
SignAt(g, idx) == IF g[idx].active THEN Sign(g[idx].value) ELSE g[idx].value

Dist2(p, q) ==
    (p[1] - q[1]) * (p[1] - q[1]) + (p[2] - q[2]) * (p[2] - q[2])
        + (p[3] - q[3]) * (p[3] - q[3])

\* The active voxels nearest to idx.
Nearest(g, idx) ==
    {n \in ActiveSet(g) : \A m \in ActiveSet(g) : Dist2(idx, n) <= Dist2(idx, m)}

\* flood_fill: every background voxel takes the sign of its nearest active
\* voxel; tie is the sign taken when nearest voxels of both signs are equally
\* near.  A grid with no active voxel has no sign to propagate.
flood_fill(g, tie) ==
    IF ActiveSet(g) = {} THEN g
    ELSE [idx \in Lattice |->
            IF g[idx].active THEN g[idx]
            ELSE LET signs == {Sign(g[n].value) : n \in Nearest(g, idx)}
                 IN Background(IF Cardinality(signs) = 1
                               THEN CHOOSE s \in signs : TRUE
                               ELSE tie)]

\* A voxel as a point of the extended line: its value when active, far
\* inside or far outside when background.
Level(c) == IF c.active THEN c.value ELSE c.value * Far

Unsigned(c) == ~c.active /\ c.value = 0

Lesser(a, b) ==
    IF Unsigned(b) THEN a
    ELSE IF Unsigned(a) THEN b
    ELSE IF Level(b) < Level(a) THEN b ELSE a

Greater(a, b) ==
    IF Unsigned(b) THEN a
    ELSE IF Unsigned(a) THEN b
    ELSE IF Level(b) > Level(a) THEN b ELSE a

Negated(c) == [active |-> c.active, value |-> -c.value]

grid_union(a, b) == [idx \in Lattice |-> Lesser(a[idx], b[idx])]

grid_intersect(a, b) == [idx \in Lattice |-> Greater(a[idx], b[idx])]

grid_subtract(a, b) == [idx \in Lattice |-> Greater(a[idx], Negated(b[idx]))]

FaceNeighbors(idx) ==
    {n \in Lattice : Abs(n[1] - idx[1]) + Abs(n[2] - idx[2]) + Abs(n[3] - idx[3]) = 1}

\* KeepSignChangeCubes (spec section 4.4): a voxel is kept if a face
\* neighbour, active or background, has the opposite sign, or if its own
\* magnitude is less than one voxel_size; the kept voxels are copied into a
\* fresh grid, all others are background.
SignChange(g, idx) ==
    \E n \in FaceNeighbors(idx) : SignAt(g, n) = -SignAt(g, idx)

NearSurface(g, idx, voxel_size) ==
    g[idx].value # NaN /\ Abs(g[idx].value) < voxel_size

KeepSignChangeCubes(g, voxel_size) ==
    [idx \in Lattice |->
        IF g[idx].active /\ (SignChange(g, idx) \/ NearSurface(g, idx, voxel_size))
        THEN g[idx]
        ELSE Background(0)]

\* Mutant: the closure adds the distance.
shift_values_add(g, distance) ==
    [idx \in Lattice |->
        IF g[idx].active THEN Active(g[idx].value + distance) ELSE g[idx]]

\* visit_values_mut with |v| *v -= distance.
shift_values(g, distance) ==
    [idx \in Lattice |->
        IF g[idx].active THEN Active(g[idx].value - distance) ELSE g[idx]]

(***************************************************************************)
(* Fast Sweeping (spec section 4.5): Gauss-Seidel sweeps in the 8          *)
(* orderings, each voxel outside the input band taking the first-order     *)
(* upwind solution of the eikonal equation from its face neighbours,       *)
(* keeping the smaller magnitude, and staying inactive beyond the          *)
(* extension distance.  Square roots are rounded up to the world unit.     *)
(***************************************************************************)
SweepCap == 4

RECURSIVE CeilSqrtFrom(_, _)
CeilSqrtFrom(n, r) == IF r * r >= n THEN r ELSE CeilSqrtFrom(n, r + 1)

CeilSqrt(n) == CeilSqrtFrom(n, 0)

Min2(a, b) == IF a <= b THEN a ELSE b

Max2(a, b) == IF a >= b THEN a ELSE b

\* The magnitude stored at a voxel, Far where nothing is stored.
Magnitude(g, idx) ==
    IF idx \in Lattice /\ g[idx].active THEN Abs(g[idx].value) ELSE Far

Step(idx, a, d) == [idx EXCEPT ![a] = @ + d]

\* The upwind magnitude along axis a.
AxisMin(g, idx, a) ==
    Min2(Magnitude(g, Step(idx, a, -1)), Magnitude(g, Step(idx, a, 1)))

\* The first-order upwind (Godunov) solution with upwind values a <= b <= c
\* and grid step h.
Upwind(a, b, c, h) ==
    LET u1 == a + h
        u2 == CeilDiv(a + b + CeilSqrt(Max2(0, 2 * h * h - (a - b) * (a - b))), 2)
        u3 == CeilDiv(a + b + c
                 + CeilSqrt(Max2(0, (a + b + c) * (a + b + c)
                              - 3 * (a * a + b * b + c * c - h * h))), 3)
    IN IF b = Far \/ u1 <= b THEN u1
       ELSE IF c = Far \/ u2 <= c THEN u2
       ELSE u3

\* The face neighbour the sign is taken from: the first of least magnitude.
NeighborOrder == <<<<1, -1>>, <<1, 1>>, <<2, -1>>, <<2, 1>>, <<3, -1>>, <<3, 1>>>>

UpwindSign(g, idx) ==
    LET least == CHOOSE k \in 1..6 :
                   LET m == Magnitude(g, Step(idx, NeighborOrder[k][1], NeighborOrder[k][2]))
                   IN /\ \A j \in 1..6 :
                           m <= Magnitude(g, Step(idx, NeighborOrder[j][1], NeighborOrder[j][2]))
                      /\ \A j \in 1..(k - 1) :
                           m < Magnitude(g, Step(idx, NeighborOrder[j][1], NeighborOrder[j][2]))
    IN Sign(g[Step(idx, NeighborOrder[least][1], NeighborOrder[least][2])].value)

\* One voxel's update within a sweep.
Update(g, band, idx, h, limit) ==
    LET x == AxisMin(g, idx, 1)
        y == AxisMin(g, idx, 2)
        z == AxisMin(g, idx, 3)
        a == Min2(x, Min2(y, z))
        c == Max2(x, Max2(y, z))
        b == x + y + z - a - c
        cand == Upwind(a, b, c, h)
    IN IF idx \in band \/ a = Far THEN g
       ELSE IF cand > limit THEN g
       ELSE IF g[idx].active /\ Abs(g[idx].value) <= cand THEN g
       ELSE [g EXCEPT ![idx] = Active(UpwindSign(g, idx) * cand)]

Side == 2 * MaxCoord + 1

Deep == 2 * MaxDepth + 1

\* The k-th voxel of the ordering with directions dir.
SweepIdx(k, dir) ==
    << dir[1] * ((k \div (Side * Deep)) - MaxCoord),
       dir[2] * (((k \div Deep) % Side) - MaxCoord),
       dir[3] * ((k % Deep) - MaxDepth) >>

RECURSIVE SweepFrom(_, _, _, _, _, _)
SweepFrom(g, band, dir, k, h, limit) ==
    IF k = Side * Side * Deep \/ ActiveSet(g) = {} THEN g
    ELSE SweepFrom(Update(g, band, SweepIdx(k, dir), h, limit), band, dir, k + 1, h, limit)

Orderings ==
    << <<1, 1, 1>>, <<-1, 1, 1>>, <<1, -1, 1>>, <<-1, -1, 1>>,
       <<1, 1, -1>>, <<-1, 1, -1>>, <<1, -1, -1>>, <<-1, -1, -1>> >>

RECURSIVE SweepAll(_, _, _, _, _)
SweepAll(g, band, o, h, limit) ==
    IF o > 8 \/ ActiveSet(g) = {} THEN g
    ELSE SweepAll(SweepFrom(g, band, Orderings[o], 0, h, limit), band, o + 1, h, limit)

RECURSIVE SweepUntil(_, _, _, _, _)
SweepUntil(g, band, n, h, limit) ==
    IF n = 0 THEN g
    ELSE LET next == SweepAll(g, band, 1, h, limit)
         IN IF next = g THEN g ELSE SweepUntil(next, band, n - 1, h, limit)

\* FastSweeping::new(voxel_size, extension_distance).fast_sweep(grid).
fast_sweep(g, voxel_size, extension_distance) ==
    IF ActiveSet(g) = {} THEN g
    ELSE SweepUntil(g, ActiveSet(g), SweepCap, voxel_size, extension_distance.mag)

(***************************************************************************)
(* Boxes.  A handler starts from the heap and leaves the heap it made, the *)
(* grid-level calls it made, and the Volume it returns.                    *)
(***************************************************************************)
NoVolume == [grid |-> 0, voxel_size |-> 0]

\* Box::new: the lowest free address.
Alloc(h) == CHOOSE a \in Addrs : h[a] = NoGrid /\ \A b \in 1..(a - 1) : h[b] # NoGrid

NoExtension == [sign |-> 1, mag |-> 0]

Entry(fn, on, input, output, other, voxel_size, extension_distance, distance) ==
    [fn |-> fn, on |-> on, input |-> input, output |-> output, other |-> other,
     voxel_size |-> voxel_size, extension_distance |-> extension_distance,
     distance |-> distance]

\* self.grid.flood_fill(), in place.
CallFloodFill(st, a, tie) ==
    LET out == flood_fill(st.heap[a], tie)
    IN [heap |-> [st.heap EXCEPT ![a] = out],
        calls |-> Append(st.calls,
                    Entry("flood_fill", a, st.heap[a], out, NoGrid, 0, NoExtension, 0))]

Combine(fn, a, b) ==
    CASE fn = "union" -> grid_union(a, b)
      [] fn = "intersect" -> grid_intersect(a, b)
      [] fn = "subtract" -> grid_subtract(a, b)

\* self.grid.union(other.grid) and its likes: in place, other's box consumed.
CallCombine(st, fn, a, b) ==
    LET out == Combine(fn, st.heap[a], st.heap[b])
    IN [heap |-> [st.heap EXCEPT ![b] = NoGrid, ![a] = out],
        calls |-> Append(st.calls,
                    Entry(fn, a, st.heap[a], out, st.heap[b], 0, NoExtension, 0))]

\* visit_leafs(KeepSignChangeCubes) and self.grid = new_grid: the new grid is
\* boxed, the old box dropped.  voxel_size is the Volume's, the unit of the
\* trim's rule on magnitudes.
CallTrim(st, a, new, voxel_size) ==
    LET out == KeepSignChangeCubes(st.heap[a], voxel_size)
    IN [heap |-> [st.heap EXCEPT ![new] = out, ![a] = NoGrid],
        calls |-> Append(st.calls,
                    Entry("keep_sign_change_cubes", a, st.heap[a], out, NoGrid, 0,
                          NoExtension, 0))]

CallFastSweep(st, a, voxel_size, extension_distance) ==
    LET out == fast_sweep(st.heap[a], voxel_size, extension_distance)
    IN [heap |-> [st.heap EXCEPT ![a] = out],
        calls |-> Append(st.calls,
                    Entry("fast_sweep", a, st.heap[a], out, NoGrid, voxel_size,
                          extension_distance, 0))]

CallShift(st, a, distance) ==
    LET out == shift_values(st.heap[a], distance)
    IN [heap |-> [st.heap EXCEPT ![a] = out],
        calls |-> Append(st.calls,
                    Entry("visit_values_mut", a, st.heap[a], out, NoGrid, 0,
                          NoExtension, distance))]

Start(h) == [heap |-> h, calls |-> <<>>]

Return(st, volume) == [heap |-> st.heap, calls |-> st.calls, ret |-> volume]

(***************************************************************************)
(* Volume's operations.                                                    *)
(***************************************************************************)
from_fn(h, voxel_size, min, max, narrow_band_width, func) ==
    LET a == Alloc(h)
        grid == from_fn_grid(voxel_size, min, max, narrow_band_width, func)
    IN Return(Start([h EXCEPT ![a] = grid]), [grid |-> a, voxel_size |-> voxel_size])

\* Mutant: the second flood fill runs after the combine, on the combined grid.
union_fill_late(h, self, other, tie) ==
    LET s1 == CallFloodFill(Start(h), self.grid, tie)
        s2 == CallCombine(s1, "union", self.grid, other.grid)
        s3 == CallFloodFill(s2, self.grid, tie)
    IN Return(s3, self)

union(h, self, other, tie) ==
    LET s1 == CallFloodFill(Start(h), self.grid, tie)
        s2 == CallFloodFill(s1, other.grid, tie)
        s3 == CallCombine(s2, "union", self.grid, other.grid)
    IN Return(s3, self)

\* Mutant: intersect delegates to the grid's union.
intersect_as_union(h, self, other, tie) ==
    LET s1 == CallFloodFill(Start(h), self.grid, tie)
        s2 == CallFloodFill(s1, other.grid, tie)
        s3 == CallCombine(s2, "union", self.grid, other.grid)
    IN Return(s3, self)

intersect(h, self, other, tie) ==
    LET s1 == CallFloodFill(Start(h), self.grid, tie)
        s2 == CallFloodFill(s1, other.grid, tie)
        s3 == CallCombine(s2, "intersect", self.grid, other.grid)
    IN Return(s3, self)

subtract(h, self, other, tie) ==
    LET s1 == CallFloodFill(Start(h), self.grid, tie)
        s2 == CallFloodFill(s1, other.grid, tie)
        s3 == CallCombine(s2, "subtract", self.grid, other.grid)
    IN Return(s3, self)

\* Mutant: one voxel of margin instead of two.
ExtensionDistance_OneVoxel(distance, voxel_size) ==
    [sign |-> Sign(distance), mag |-> Abs(Abs(distance) + voxel_size)]

\* extension_distance = distance.abs() + voxel_size + voxel_size, then
\* set_sign(distance.sign()).
ExtensionDistance(distance, voxel_size) ==
    [sign |-> Sign(distance), mag |-> Abs(Abs(distance) + voxel_size + voxel_size)]

\* Mutant: the values are shifted by the extension distance.
offset_shift_extension(h, self, distance) ==
    LET new == Alloc(h)
        s1 == CallTrim(Start(h), self.grid, new, self.voxel_size)
        s2 == CallFastSweep(s1, new, self.voxel_size,
                            ExtensionDistance(distance, self.voxel_size))
        s3 == CallShift(s2, new,
                        Sign(distance) * ExtensionDistance(distance, self.voxel_size).mag)
    IN Return(s3, [grid |-> new, voxel_size |-> self.voxel_size])

offset(h, self, distance) ==
    LET new == Alloc(h)
        s1 == CallTrim(Start(h), self.grid, new, self.voxel_size)
        s2 == CallFastSweep(s1, new, self.voxel_size,
                            ExtensionDistance(distance, self.voxel_size))
        s3 == CallShift(s2, new, distance)
    IN Return(s3, [grid |-> new, voxel_size |-> self.voxel_size])

\* Mutant: the copy shares the original's box.
clone_shallow(h, self) == Return(Start(h), self)

clone(h, self) ==
    LET a == Alloc(h)
    IN Return(Start([h EXCEPT ![a] = h[self.grid]]),
              [grid |-> a, voxel_size |-> self.voxel_size])

(***************************************************************************)
(* The caller: bindings that hold Volumes, and the calls it makes.  An     *)
(* operation consumes the operands it takes by value; its result is bound  *)
(* where self was.                                                         *)
(***************************************************************************)
VoxelSizes == (-1)..MaxVoxelSize

Corners == Coords \X (0..MaxCoord) \X Depths

Inputs(sizes, mins, maxs, widths, funcs) ==
    [voxel_size : sizes, min : mins, max : maxs, narrow_band_width : widths,
     func : funcs]

\* Every input of the bounds, for the claims about from_fn alone.
AllInputs == Inputs(VoxelSizes, Corners, Corners, 0..MaxBand, Funcs)

\* The fields the other operations are exercised on.
FieldInputs ==
    Inputs(VoxelSizes, {<<-MaxCoord, 0, -MaxDepth>>}, {<<MaxCoord, MaxCoord, MaxDepth>>},
           {0}, {<<"sphere", 1>>, <<"plane", 0>>})

NoArgs ==
    [voxel_size |-> 0, min |-> <<0, 0, 0>>, max |-> <<0, 0, 0>>,
     narrow_band_width |-> 0, func |-> <<"none", 0>>]

NoView == [voxel_size |-> 0, grid |-> NoGrid, box |-> 0]

\* What a binding holds: the Volume's voxel_size, its box and the grid in it.
View(h, v) ==
    IF v = NoVolume THEN NoView
    ELSE [voxel_size |-> v.voxel_size, grid |-> h[v.grid], box |-> v.grid]

Views == [s \in Slots |-> View(heap, vols[s])]

Live(s) == vols[s] # NoVolume

FreeSlot(s) == ~Live(s) /\ \A t \in 1..(s - 1) : Live(t)

Op(op, self, other, out, distance, tie, args) ==
    [op |-> op, self |-> self, other |-> other, out |-> out, distance |-> distance,
     tie |-> tie, args |-> args, pre |-> Views]

Init ==
    /\ heap = [a \in Addrs |-> NoGrid]
    /\ vols = [s \in Slots |-> NoVolume]
    /\ calls = <<>>
    /\ last = Op("init", 0, 0, 0, 0, 0, NoArgs)
    /\ cloned = [s \in Slots |-> NoView]
    /\ nops = 0

Finish(r, bindings, op, marks) ==
    /\ heap' = r.heap
    /\ calls' = r.calls
    /\ vols' = bindings
    /\ last' = op
    /\ cloned' = marks
    /\ nops' = nops + 1

FromFn(inputs) ==
    \E s \in Slots, in \in inputs :
        /\ nops < MaxOps
        /\ FreeSlot(s)
        /\ LoopsEnd(LatticeMin(in.min, in.voxel_size), LatticeMax(in.max, in.voxel_size))
        /\ LET r == from_fn(heap, in.voxel_size, in.min, in.max,
                            in.narrow_band_width, in.func)
           IN Finish(r, [vols EXCEPT ![s] = r.ret],
                     Op("from_fn", 0, 0, s, 0, 0, in), cloned)

Union ==
    \E i \in Slots, j \in Slots, tie \in {-1, 1} :
        /\ nops < MaxOps
        /\ i # j /\ Live(i) /\ Live(j)
        /\ LET r == union(heap, vols[i], vols[j], tie)
           IN Finish(r, [vols EXCEPT ![i] = r.ret, ![j] = NoVolume],
                     Op("union", i, j, i, 0, tie, NoArgs),
                     [cloned EXCEPT ![i] = NoView, ![j] = NoView])

Intersect ==
    \E i \in Slots, j \in Slots, tie \in {-1, 1} :
        /\ nops < MaxOps
        /\ i # j /\ Live(i) /\ Live(j)
        /\ LET r == intersect(heap, vols[i], vols[j], tie)
           IN Finish(r, [vols EXCEPT ![i] = r.ret, ![j] = NoVolume],
                     Op("intersect", i, j, i, 0, tie, NoArgs),
                     [cloned EXCEPT ![i] = NoView, ![j] = NoView])

Subtract ==
    \E i \in Slots, j \in Slots, tie \in {-1, 1} :
        /\ nops < MaxOps
        /\ i # j /\ Live(i) /\ Live(j)
        /\ LET r == subtract(heap, vols[i], vols[j], tie)
           IN Finish(r, [vols EXCEPT ![i] = r.ret, ![j] = NoVolume],
                     Op("subtract", i, j, i, 0, tie, NoArgs),
                     [cloned EXCEPT ![i] = NoView, ![j] = NoView])

Offset ==
    \E i \in Slots, distance \in (-MaxDist)..MaxDist :
        /\ nops < MaxOps
        /\ Live(i)
        /\ LET r == offset(heap, vols[i], distance)
           IN Finish(r, [vols EXCEPT ![i] = r.ret],
                     Op("offset", i, 0, i, distance, 0, NoArgs),
                     [cloned EXCEPT ![i] = NoView])

Clone ==
    \E i \in Slots, s \in Slots :
        /\ nops < MaxOps
        /\ Live(i) /\ FreeSlot(s)
        /\ LET r == clone(heap, vols[i])
           IN Finish(r, [vols EXCEPT ![s] = r.ret],
                     Op("clone", i, 0, s, 0, 0, NoArgs),
                     [cloned EXCEPT ![i] = View(heap, vols[i]),
                                    ![s] = View(r.heap, r.ret)])

FromFnField == FromFn(FieldInputs)

FromFnAny == nops = 0 /\ FromFn(AllInputs)

Next == FromFnField \/ Union \/ Intersect \/ Subtract \/ Offset \/ Clone

Spec == Init /\ [][Next]_vars

\* from_fn alone, over every input of the bounds.
SpecFromFn == Init /\ [][FromFnAny]_vars

(***************************************************************************)
(* Properties.  Each is stated on the state an operation leaves: last      *)
(* names the operation and holds the bindings as they were before it,      *)
(* calls is the sequence of grid calls it made.                            *)
(***************************************************************************)
BoolOps == {"union", "intersect", "subtract"}

\* The grid of the Volume the last operation returned.
Result == heap[vols[last.out].grid]

\* The bindings before the last operation.
Pre(s) == last.pre[s]

\* idx lies in floor(min / voxel_size) .. ceil(max / voxel_size) on each axis.
InBox(idx, in) ==
    \A a \in Axes :
        /\ in.min[a] \div in.voxel_size <= idx[a]
        /\ idx[a] <= -((-in.max[a]) \div in.voxel_size)

Sample(idx, in) == Func(in.func, <<idx[1] * in.voxel_size, idx[2] * in.voxel_size,
                                   idx[3] * in.voxel_size>>)

BandOf(in) == (in.narrow_band_width + 1) * in.voxel_size

\* |value| <= band as the comparison of two floats: false when value is NaN.
InBand(value, band) == value # NaN /\ Abs(value) <= band

\* C1 as stated: for voxel_size > 0 the active voxels of from_fn's grid are
\* exactly the lattice points of the box whose value satisfies
\* |value| <= (narrow_band_width + 1) * voxel_size, each storing its value;
\* every other lattice point is background.  (Refuted: the code skips a point
\* when |value| > band, which is false of a NaN value, so NaN is inserted.)
C1_ActiveExactlyInBand ==
    (last.op = "from_fn" /\ last.args.voxel_size > 0) =>
        \A idx \in Lattice :
            Result[idx] = IF InBox(idx, last.args)
                             /\ InBand(Sample(idx, last.args), BandOf(last.args))
                          THEN Active(Sample(idx, last.args))
                          ELSE Background(0)

\* C2 as stated: a union, intersect or subtract is only ever carried out on
\* two Volumes of equal voxel_size (a call with differing voxel_size is
\* rejected and combines nothing).  (Refuted: nothing compares the two.)
C2_MismatchNeverCombined ==
    last.op \in BoolOps => Pre(last.self).voxel_size = Pre(last.other).voxel_size

\* C3 as stated: every Volume that exists has voxel_size > 0.  (Refuted:
\* from_fn constructs a Volume for any voxel_size.)
C3_VoxelSizePositive ==
    \A s \in Slots : Live(s) => vols[s].voxel_size > 0

\* Some component of the lattice-rounded max is below that of the min.
Inverted(in) ==
    \E a \in Axes :
        LatticeMax(in.max, in.voxel_size)[a] < LatticeMin(in.min, in.voxel_size)[a]

\* C4: from_fn on a box of which some component of the lattice-rounded max is
\* less than that of the lattice-rounded min returns a Volume of the given
\* voxel_size whose grid has no active voxel.
C4_InvertedBoxIsEmpty ==
    (last.op = "from_fn" /\ Inverted(last.args)) =>
        /\ Live(last.out)
        /\ vols[last.out].voxel_size = last.args.voxel_size
        /\ Result = empty

\* C4 witness: a from_fn with voxel_size > 0 on a box inverted on the second
\* axis only, the origin within the other two ranges and its value within
\* the band.
C4_Witness ==
    /\ last.op = "from_fn" /\ last.args.voxel_size > 0
    /\ last.args.max[2] < last.args.min[2]
    /\ last.args.min[1] <= 0 /\ 0 <= last.args.max[1]
    /\ last.args.min[3] <= 0 /\ 0 <= last.args.max[3]
    /\ InBand(Sample(<<0, 0, 0>>, last.args), BandOf(last.args))
    /\ Live(last.out)
    /\ ActiveSet(Result) = {}

\* C5: for two Volumes of equal voxel_size and every lattice position to
\* which flood fill has given a sign in both operands, the result of union
\* is the lesser of the two flood-filled operands there, of intersect the
\* greater, of subtract the greater of the first and the negation of the
\* second; a background voxel counts as far inside or far outside by its
\* sign, so this covers background against background.
C5_CsgIdentities ==
    (last.op \in BoolOps /\ Pre(last.self).voxel_size = Pre(last.other).voxel_size) =>
        LET A == flood_fill(Pre(last.self).grid, last.tie)
            B == flood_fill(Pre(last.other).grid, last.tie)
        IN \A p \in Lattice :
            (SignAt(A, p) # 0 /\ SignAt(B, p) # 0) =>
                LET x == Level(A[p])
                    y == Level(B[p])
                    r == Level(Result[p])
                IN CASE last.op = "union" -> r = IF x <= y THEN x ELSE y
                     [] last.op = "intersect" -> r = IF x >= y THEN x ELSE y
                     [] last.op = "subtract" -> r = IF x >= -y THEN x ELSE -y

\* C5 witness: a subtract of two Volumes of equal voxel_size in which some
\* position is background in both operands and some position, active in
\* both, takes the negation of the second operand's value.
C5_Witness ==
    /\ last.op = "subtract"
    /\ Pre(last.self).voxel_size = Pre(last.other).voxel_size
    /\ \E p \in Lattice :
        /\ ~Pre(last.self).grid[p].active /\ ~Pre(last.other).grid[p].active
        /\ ~Result[p].active /\ Result[p].value # 0
    /\ \E p \in Lattice :
        /\ Pre(last.self).grid[p].active /\ Pre(last.other).grid[p].active
        /\ Result[p] = Active(-Pre(last.other).grid[p].value)
        /\ Result[p] # Pre(last.self).grid[p]

\* The Band-Trim of the grid the last operation was given.
Trimmed == KeepSignChangeCubes(Pre(last.self).grid, Pre(last.self).voxel_size)

\* The grid a further offset(0) of the Volume just returned would have.
OffsetZeroAgain ==
    LET r == offset(heap, vols[last.out], 0)
    IN r.heap[r.ret.grid]

C7_TrimSweepShift ==
    last.op = "offset" =>
        /\ Len(calls) = 3
        /\ calls[1].fn = "keep_sign_change_cubes"
        /\ calls[1].on = Pre(last.self).box
        /\ calls[1].input = Pre(last.self).grid
        /\ calls[2].fn = "fast_sweep"
        /\ calls[2].on = vols[last.out].grid
        /\ calls[2].input = calls[1].output
        /\ calls[2].voxel_size = Pre(last.self).voxel_size
        /\ calls[2].extension_distance.mag
             = Abs(Abs(last.distance) + 2 * Pre(last.self).voxel_size)
        /\ calls[2].extension_distance.sign = (IF last.distance < 0 THEN -1 ELSE 1)
        /\ calls[3].fn = "visit_values_mut"
        /\ calls[3].on = vols[last.out].grid
        /\ calls[3].input = calls[2].output
        /\ calls[3].distance = last.distance
        /\ Result = calls[3].output

\* C7 witness: an offset by a negative distance in which each of the three
\* steps changed the grid.
C7_Witness ==
    /\ last.op = "offset" /\ last.distance < 0
    /\ Pre(last.self).voxel_size > 0
    /\ Len(calls) = 3
    /\ calls[1].output # calls[1].input
    /\ calls[2].output # calls[2].input
    /\ calls[3].output # calls[3].input

\* C8: a union, intersect or subtract makes exactly three grid calls: flood
\* fill of self's grid, flood fill of other's grid, then the combine of its
\* own name on self's flood-filled grid with other's flood-filled grid; the
\* Volume returned holds the combined grid in self's box with self's
\* voxel_size, and other is consumed.
C8_FloodFillThenCombine ==
    last.op \in BoolOps =>
        /\ Len(calls) = 3
        /\ calls[1].fn = "flood_fill"
        /\ calls[1].on = Pre(last.self).box
        /\ calls[1].input = Pre(last.self).grid
        /\ calls[2].fn = "flood_fill"
        /\ calls[2].on = Pre(last.other).box
        /\ calls[2].input = Pre(last.other).grid
        /\ calls[3].fn = last.op
        /\ calls[3].on = Pre(last.self).box
        /\ calls[3].input = calls[1].output
        /\ calls[3].other = calls[2].output
        /\ Result = calls[3].output
        /\ vols[last.out].voxel_size = Pre(last.self).voxel_size
        /\ ~Live(last.other)

\* C8 witness: a union of two Volumes of different voxel_size in which both
\* flood fills changed their grid and the combined grid is neither operand's.
C8_Witness ==
    /\ last.op = "union"
    /\ Pre(last.self).voxel_size # Pre(last.other).voxel_size
    /\ Len(calls) = 3
    /\ calls[1].output # calls[1].input
    /\ calls[2].output # calls[2].input
    /\ calls[3].output # calls[3].input
    /\ calls[3].output # calls[3].other

\* C9: the shift of an offset changes values only: a voxel is active in the
\* returned grid exactly when Fast Sweeping left it active, its value is
\* then the swept value minus distance, every other voxel is as the sweep
\* left it, and the returned Volume has the voxel_size of the one given.
C9_ShiftChangesValuesOnly ==
    last.op = "offset" =>
        /\ Len(calls) = 3 /\ calls[2].fn = "fast_sweep"
        /\ \A idx \in Lattice :
            /\ Result[idx].active = calls[2].output[idx].active
            /\ Result[idx].active =>
                Result[idx].value = calls[2].output[idx].value - last.distance
            /\ ~Result[idx].active => Result[idx] = calls[2].output[idx]
        /\ vols[last.out].voxel_size = Pre(last.self).voxel_size

\* C9 witness: an offset by a non-zero distance whose swept grid has active
\* voxels and background voxels.
C9_Witness ==
    /\ last.op = "offset" /\ last.distance # 0
    /\ Len(calls) = 3
    /\ \E idx \in Lattice : calls[2].output[idx].active /\ Result[idx].active
    /\ \E idx \in Lattice : ~calls[2].output[idx].active /\ ~Result[idx].active

\* C10: a clone starts with the grid and voxel_size of the Volume it was
\* taken from, in a box of its own, and leaves that Volume as it was; from
\* then on no operation on one of the two changes the box, the grid or the
\* voxel_size of the other.
C10_CloneIndependent ==
    /\ \A v \in Slots : cloned[v] # NoView => View(heap, vols[v]) = cloned[v]
    /\ last.op = "clone" =>
        /\ vols[last.out].voxel_size = Pre(last.self).voxel_size
        /\ Result = Pre(last.self).grid
        /\ vols[last.out].grid # vols[last.self].grid
        /\ View(heap, vols[last.self]) = Pre(last.self)

\* C10 witness: a union, intersect or subtract that took as other a clone of
\* a Volume still bound, whose grid is not empty and is not the result.
C10_Witness ==
    /\ last.op \in BoolOps
    /\ \E v \in Slots \ {last.self, last.other} :
        /\ Live(v) /\ cloned[v] # NoView
        /\ Pre(last.other).grid = cloned[v].grid
        /\ Pre(last.other).box # cloned[v].box
        /\ ActiveSet(cloned[v].grid) # {}
        /\ Result # cloned[v].grid
        /\ View(heap, vols[v]) = cloned[v]

=============================================================================
